---- MODULE Spec2Model ----
(***************************************************************************)
(* Model of src/main.py: the POST /interact endpoint (interact), the       *)
(* command interpreter (interpret_command) and the action executor         *)
(* (execute_actions) with its like_post verification sub-protocol.         *)
(*                                                                         *)
(* A Python dict is a function whose DOMAIN is the set of keys present, so *)
(* that a missing key is a KeyError and `k in d` is k \in DOMAIN d.        *)
(* Selectors are sequences of one-character strings, so that               *)
(* `"password" in selector.lower()` is computed and not assumed.           *)
(* An exception is a pair <<class, message>>; NoError is the empty tuple.  *)
(* Every awaited page operation may raise: the environment picks which one *)
(* (failAt) for each handler run.                                          *)
(***************************************************************************)
EXTENDS Integers, Sequences, FiniteSets, TLC

VARIABLES
    pc,            \* position of the request: interpret, prepare, acquire, navigate, loop, final, fatal, teardown, respond, done
    request,       \* CommandRequest: url and credentials
    actions_data,  \* dict returned by interpret_command (its actions are mutated in place by the substitution)
    llm_actions,   \* history: the actions list exactly as interpreted
    starting_url,  \* the starting URL handed to execute_actions (None when absent)
    session,       \* playwright driver, browser, context and page of the request
    results,       \* results["steps"]
    idx,           \* 1-based position of the for loop over the actions
    thrown,        \* history: for each dispatched action, the exception that reached its except clause (NoError if none)
    navOps,        \* history: page operations of the initial navigation
    pageOps,       \* page operations of the most recent stage (loop iteration, final screenshot, fatal handler)
    likeObs,       \* history: what the most recent like_post handler observed
    exc,           \* exception caught by the outer except clause of execute_actions (NoError if none)
    pending,       \* value execute_actions is returning, or exception it is raising, while teardown runs
    response       \* HTTP response of POST /interact

vars == <<pc, request, actions_data, llm_actions, starting_url, session, results, idx,
          thrown, navOps, pageOps, likeObs, exc, pending, response>>

-----------------------------------------------------------------------------
(* Bounds of the model *)

\* longest plan the interpreter returns
MaxPlanLen == 2
\* largest number of posts the feed query returns
MaxPosts == 2
\* like_post indexes range over -MaxIndex..MaxIndex
MaxIndex == 3

-----------------------------------------------------------------------------
(* Python values *)

None == "None"
NoError == <<>>
Err(class, msg) == <<class, msg>>
KeyError(k) == Err("KeyError", k)

Has(d, k) == k \in DOMAIN d
\* d.get(k, default)
Get(d, k, default) == IF Has(d, k) THEN d[k] ELSE default
SetItemReplacingDict(d, k, v) == [f \in {k} |-> v]
\* d[k] = v
SetItem(d, k, v) == [f \in (DOMAIN d) \cup {k} |-> IF f = k THEN v ELSE d[f]]

UpperChars == <<"A","B","C","D","E","F","G","H","I","J","K","L","M",
                "N","O","P","Q","R","S","T","U","V","W","X","Y","Z">>
LowerChars == <<"a","b","c","d","e","f","g","h","i","j","k","l","m",
                "n","o","p","q","r","s","t","u","v","w","x","y","z">>
LowerChar(c) ==
    IF \E i \in DOMAIN UpperChars : UpperChars[i] = c
    THEN LowerChars[CHOOSE i \in DOMAIN UpperChars : UpperChars[i] = c]
    ELSE c
\* str.lower()
StrLower(s) == [i \in DOMAIN s |-> LowerChar(s[i])]
\* needle in hay
StrContains(needle, hay) ==
    \E i \in 1..(Len(hay) - Len(needle) + 1) :
        SubSeq(hay, i, i + Len(needle) - 1) = needle

PASSWORD == <<"p","a","s","s","w","o","r","d">>
YOUR_USERNAME == "YOUR_USERNAME"
YOUR_PASSWORD == "YOUR_PASSWORD"

-----------------------------------------------------------------------------
(* Per-kind handlers of the dispatch loop, as straight-line programs.       *)
(* Key(k) is a direct lookup action[k]; RequireSelector is the explicit     *)
(* check of the press branch; Op(n) is an awaited page operation.           *)

Key(k) == [ins |-> "key", arg |-> k]
Op(n) == [ins |-> "op", arg |-> n]
RequireSelector == [ins |-> "require", arg |-> "selector"]

PressRequiresSelector == Err("Exception", "Press action requires a selector parameter")
\* whatever the browser driver raises (timeout, target closed, bad argument)
PageError == Err("Error", "page operation failed")

ImplementedKinds ==
    {"navigate", "click", "fill", "press", "wait", "scroll", "login", "search", "like_post"}

\* the press branch: the explicit check, then wait visible and press
PressProgramNoCheck ==
    <<Key("selector"), Op("wait_for_selector"), Key("selector"), Key("key"), Op("press")>>
PressProgram ==
    <<RequireSelector, Key("selector"), Op("wait_for_selector"),
      Key("selector"), Key("key"), Op("press")>>

\* no branch of the if/elif chain matches the kind: nothing is done
UnknownKindProgramEvaluates == <<Op("evaluate")>>
UnknownKindProgram == <<>>

\* the if/elif chain on action_type, like_post excepted (see LikePostTry)
HandlerProgram(action_type) ==
    CASE action_type = "navigate" -> <<Key("url"), Op("goto")>>
      [] action_type = "click" ->
            <<Key("selector"), Op("wait_for_selector"), Key("selector"), Op("click")>>
      [] action_type = "fill" ->
            <<Key("selector"), Op("wait_for_selector"), Key("text"), Op("fill")>>
      [] action_type = "press" -> PressProgram
      [] action_type = "wait" -> <<Key("timeout"), Op("wait_for_timeout")>>
      [] action_type = "scroll" -> <<Key("pixels"), Op("evaluate")>>
      [] action_type = "login" ->
            <<Key("username_selector"), Op("wait_for_selector"),
              Key("username_selector"), Key("username"), Op("fill"),
              Key("password_selector"), Op("wait_for_selector"),
              Key("password_selector"), Key("password"), Op("fill"),
              Key("submit_selector"), Op("wait_for_selector"),
              Key("submit_selector"), Op("click")>>
      [] action_type = "search" ->
            <<Key("search_selector"), Op("wait_for_selector"),
              Key("search_selector"), Key("query"), Op("fill"),
              Key("submit_selector"), Op("click")>>
      [] OTHER -> UnknownKindProgram

\* the settle delay that ends the try block of every iteration
SettleDelay == <<Op("settle_wait_for_timeout")>>

\* the try block of one iteration, for an action that is not a like_post
StepProgram(action) ==
    <<Key("type")>>
    \o (IF Has(action, "type") THEN HandlerProgram(action["type"]) ELSE <<>>)
    \o SettleDelay

NumOps(prog) == Cardinality({i \in DOMAIN prog : prog[i].ins = "op"})

\* Runs prog from instruction i; the failAt-th page operation raises (0: none does).
\* Returns the page operations performed and the exception raised (NoError if none).
RECURSIVE RunProgram(_, _, _, _, _)
RunProgram(prog, i, action, failAt, ops) ==
    IF i > Len(prog) THEN [ops |-> ops, error |-> NoError]
    ELSE LET ins == prog[i] IN
         CASE ins.ins = "key" ->
                IF Has(action, ins.arg)
                THEN RunProgram(prog, i + 1, action, failAt, ops)
                ELSE [ops |-> ops, error |-> KeyError(ins.arg)]
           [] ins.ins = "require" ->
                IF Has(action, ins.arg)
                THEN RunProgram(prog, i + 1, action, failAt, ops)
                ELSE [ops |-> ops, error |-> PressRequiresSelector]
           [] OTHER ->
                IF Len(ops) + 1 = failAt
                THEN [ops |-> Append(ops, [op |-> ins.arg, ok |-> FALSE]), error |-> PageError]
                ELSE RunProgram(prog, i + 1, action, failAt,
                                Append(ops, [op |-> ins.arg, ok |-> TRUE]))

RunStep(action, failAt) == RunProgram(StepProgram(action), 1, action, failAt, <<>>)

-----------------------------------------------------------------------------
(* like_post *)

\* `value or "null"`: None and the empty string are falsy
OrNull(v) == IF v = None \/ v = "" THEN "null" ELSE v

\* current_state / new_state: the three attributes read from the like button
Snapshot(attrs) ==
    [aria_pressed |-> OrNull(attrs.aria_pressed),
     aria_label |-> OrNull(attrs.aria_label),
     classes |-> OrNull(attrs.classes)]

NullSnapshot == [aria_pressed |-> "-", aria_label |-> "-", classes |-> "-"]

Min(a, b) == IF a <= b THEN a ELSE b

\* post_index = min(action.get("index", 1) - 1, len(posts) - 1)
ClampNoMin(index, count) == index - 1
ClampIndex(index, count) == Min(index - 1, count - 1)

\* posts[post_index]: Python accepts -len <= i < len and counts a negative i from the end
ValidListIndex(i, len) == -len <= i /\ i < len
ListPosition(i, len) == IF i >= 0 THEN i ELSE len + i

\* the condition under which "Like action didn't register" is raised
StateUnchangedAnd(current_state, new_state) ==
    new_state.aria_pressed = current_state.aria_pressed
    /\ new_state.aria_label = current_state.aria_label
StateUnchanged(current_state, new_state) ==
    new_state.aria_pressed = current_state.aria_pressed
    \/ new_state.aria_label = current_state.aria_label

NoPostsFound == Err("Exception", "No posts found - may need different selectors")
LikeButtonNotFound == Err("Exception", "Like button not found")
LikeNotRegistered == Err("Exception", "Like action didn't register - button state unchanged")
IndexError == Err("IndexError", "list index out of range")

NoObs == [count |-> -1, target |-> -1, before |-> NullSnapshot, after |-> NullSnapshot,
          error |-> NoError, returned |-> FALSE]

\* Runs the page operations `names` in order after `ops`; the failAt-th operation
\* of the handler raises.
RECURSIVE RunOps(_, _, _)
RunOps(names, failAt, ops) ==
    IF names = <<>> THEN [ops |-> ops, error |-> NoError]
    ELSE IF Len(ops) + 1 = failAt
         THEN [ops |-> Append(ops, [op |-> Head(names), ok |-> FALSE]), error |-> PageError]
         ELSE RunOps(Tail(names), failAt, Append(ops, [op |-> Head(names), ok |-> TRUE]))

\* The inner try block of the like_post branch. env is what the page does:
\* failAt (which page operation raises), count (posts found), primary and fallback
\* (whether each selector group finds a button), before and after (the button's
\* attributes read before and after the click).
\* Returns the operations performed, the exception raised inside the inner try
\* (NoError when the like was verified) and what was observed.
LikePostTry(action, env) ==
    LET a == RunOps(<<"wait_for_selector", "query_selector_all">>, env.failAt, <<>>)
        post_index == ClampIndex(Get(action, "index", 1), env.count)
        b == RunOps(<<"scroll_into_view_if_needed", "wait_for_timeout", "query_selector">>
                    \o (IF env.primary THEN <<>> ELSE <<"query_selector">>),
                    env.failAt, a.ops)
        c == RunOps(<<"get_attribute", "get_attribute", "get_attribute">>, env.failAt, b.ops)
        d == RunOps(<<"evaluate", "wait_for_timeout",
                      "get_attribute", "get_attribute", "get_attribute">>, env.failAt, c.ops)
        current_state == Snapshot(env.before)
        new_state == Snapshot(env.after)
        obs0 == [NoObs EXCEPT !.count = env.count]
    IN  IF a.error # NoError THEN [ops |-> a.ops, error |-> a.error, obs |-> NoObs]
        ELSE IF env.count = 0 THEN [ops |-> a.ops, error |-> NoPostsFound, obs |-> obs0]
        ELSE IF ~ValidListIndex(post_index, env.count)
             THEN [ops |-> a.ops, error |-> IndexError, obs |-> obs0]
        ELSE LET obs1 == [obs0 EXCEPT !.target = ListPosition(post_index, env.count)] IN
             IF b.error # NoError THEN [ops |-> b.ops, error |-> b.error, obs |-> obs1]
        ELSE IF ~env.primary /\ ~env.fallback
             THEN [ops |-> b.ops, error |-> LikeButtonNotFound, obs |-> obs1]
        ELSE IF c.error # NoError THEN [ops |-> c.ops, error |-> c.error, obs |-> obs1]
        ELSE LET obs2 == [obs1 EXCEPT !.before = current_state] IN
             IF d.error # NoError THEN [ops |-> d.ops, error |-> d.error, obs |-> obs2]
        ELSE LET obs3 == [obs2 EXCEPT !.after = new_state] IN
             IF StateUnchanged(current_state, new_state)
             THEN [ops |-> d.ops, error |-> LikeNotRegistered, obs |-> obs3]
             ELSE [ops |-> d.ops, error |-> NoError, obs |-> obs3]

-----------------------------------------------------------------------------
(* Results and responses *)

StrOf(e) == e[2]
HTTPException(status_code, detail) == <<"HTTPException", detail, status_code>>

NoDebug == [before |-> NullSnapshot, after |-> NullSnapshot, error |-> NoError,
            screenshot |-> FALSE]

\* shape shared by what execute_actions returns and by the HTTP response
NoResponse ==
    [kind |-> "none", status |-> 0, success |-> FALSE, message |-> <<>>,
     hasData |-> FALSE, data |-> <<>>, screenshot |-> FALSE, debug |-> NoDebug]

\* step_result = {"action": action, "success": True}
NewStepResult(action) ==
    [action |-> action, success |-> TRUE, error |-> NoError, screenshot |-> FALSE]

\* the except clause of one iteration: the step is marked failed, the error recorded,
\* a screenshot attached when it can be taken
CatchStep(step_result, e, shotOk) ==
    [step_result EXCEPT !.success = FALSE, !.error = e, !.screenshot = shotOk]

\* results["steps"].append(step_result)
AppendStepIfSucceeded(steps, step_result) ==
    IF step_result.success THEN Append(steps, step_result) ELSE steps
AppendStep(steps, step_result) == Append(steps, step_result)

\* return AutomationResponse(success=True, message="Automation completed", data=results, screenshot=...)
FinalResponseAllSteps(steps) ==
    [NoResponse EXCEPT !.kind = "AutomationResponse",
                       !.success = \A i \in DOMAIN steps : steps[i].success,
                       !.message = <<"Automation completed">>,
                       !.hasData = TRUE, !.data = steps, !.screenshot = TRUE]
FinalResponse(steps) ==
    [NoResponse EXCEPT !.kind = "AutomationResponse", !.success = TRUE,
                       !.message = <<"Automation completed">>,
                       !.hasData = TRUE, !.data = steps, !.screenshot = TRUE]

FatalResponseWithSteps(e, shotOk) ==
    [NoResponse EXCEPT !.kind = "AutomationResponse", !.success = FALSE,
                       !.message = <<"Automation failed: ", StrOf(e)>>,
                       !.hasData = TRUE, !.data = results,
                       !.screenshot = shotOk]

\* the outer except clause: AutomationResponse(success=False, message=..., screenshot=... if taken)
FatalResponse(e, shotOk) ==
    [NoResponse EXCEPT !.kind = "AutomationResponse", !.success = FALSE,
                       !.message = <<"Automation failed: ", StrOf(e)>>,
                       !.screenshot = shotOk]

\* the dict returned by the like_post branch when the like is verified
LikeSuccess(obs) ==
    [NoResponse EXCEPT !.kind = "dict", !.success = TRUE,
                       !.message = <<"Successfully liked post">>,
                       !.debug = [NoDebug EXCEPT !.before = obs.before, !.after = obs.after]]

\* the dict returned by the except clause of the like_post branch
LikeFailure(e) ==
    [NoResponse EXCEPT !.kind = "dict", !.success = FALSE, !.message = <<StrOf(e)>>,
                       !.debug = [NoDebug EXCEPT !.error = e, !.screenshot = TRUE]]

\* except HTTPException: raise / except Exception as e: raise HTTPException(500, str(e))
InteractExceptAll500(e) ==
    [NoResponse EXCEPT !.kind = "http_error", !.status = 500, !.message = <<StrOf(e)>>]
InteractExcept(e) ==
    IF e[1] = "HTTPException"
    THEN [NoResponse EXCEPT !.kind = "http_error", !.status = e[3], !.message = <<StrOf(e)>>]
    ELSE [NoResponse EXCEPT !.kind = "http_error", !.status = 500, !.message = <<StrOf(e)>>]

\* what the endpoint answers for the value execute_actions returned; a returned
\* dict is validated against the response_model, which keeps success and message
EndpointResponse(p) ==
    IF p.kind = "dict"
    THEN [NoResponse EXCEPT !.kind = "AutomationResponse", !.status = 200,
                            !.success = p.success, !.message = p.message]
    ELSE [p EXCEPT !.status = 200]

-----------------------------------------------------------------------------
(* Credential substitution *)

Truthy(v) == v # None /\ v # ""
\* `if request.credentials:` a dict is truthy when it is not None and not empty
CredentialsSupplied(req) == req.has_credentials /\ DOMAIN req.credentials # {}

TypeErrorNotIterable == Err("TypeError", "'NoneType' object is not iterable")

SubstituteActionLoginUsernameOnly(action, credentials) ==
    IF ~Has(action, "type") THEN [action |-> action, error |-> KeyError("type")]
    ELSE IF action["type"] = "fill" THEN
        IF Has(action, "text") /\ action["text"] = YOUR_USERNAME
        THEN [action |-> SetItem(action, "text", Get(credentials, "username", "")),
              error |-> NoError]
        ELSE IF ~Has(action, "selector")
        THEN [action |-> action, error |-> KeyError("selector")]
        ELSE IF StrContains(PASSWORD, StrLower(action["selector"]))
                \/ (Has(action, "text") /\ action["text"] = YOUR_PASSWORD)
        THEN [action |-> SetItem(action, "text", Get(credentials, "password", "")),
              error |-> NoError]
        ELSE [action |-> action, error |-> NoError]
    ELSE IF action["type"] = "login" /\ Has(action, "username_selector")
    THEN [action |-> SetItem(action, "username", Get(credentials, "username", "")),
          error |-> NoError]
    ELSE [action |-> action, error |-> NoError]

\* the body of the loop over actions_data["actions"]: the action after the
\* in-place update, and the exception raised (NoError if none)
SubstituteActionPasswordFirst(action, credentials) ==
    IF ~Has(action, "type") THEN [action |-> action, error |-> KeyError("type")]
    ELSE IF action["type"] = "fill" THEN
        IF ~Has(action, "selector") THEN [action |-> action, error |-> KeyError("selector")]
        ELSE IF StrContains(PASSWORD, StrLower(action["selector"]))
                \/ (Has(action, "text") /\ action["text"] = YOUR_PASSWORD)
        THEN [action |-> SetItem(action, "text", Get(credentials, "password", "")),
              error |-> NoError]
        ELSE IF Has(action, "text") /\ action["text"] = YOUR_USERNAME
        THEN [action |-> SetItem(action, "text", Get(credentials, "username", "")),
              error |-> NoError]
        ELSE [action |-> action, error |-> NoError]
    ELSE IF action["type"] = "login" /\ Has(action, "username_selector")
    THEN [action |-> SetItem(SetItem(action, "username", Get(credentials, "username", "")),
                             "password", Get(credentials, "password", "")),
          error |-> NoError]
    ELSE [action |-> action, error |-> NoError]
SubstituteAction(action, credentials) ==
    IF ~Has(action, "type") THEN [action |-> action, error |-> KeyError("type")]
    ELSE IF action["type"] = "fill" THEN
        IF Has(action, "text") /\ action["text"] = YOUR_USERNAME
        THEN [action |-> SetItem(action, "text", Get(credentials, "username", "")),
              error |-> NoError]
        ELSE IF ~Has(action, "selector")
        THEN [action |-> action, error |-> KeyError("selector")]
        ELSE IF StrContains(PASSWORD, StrLower(action["selector"]))
                \/ (Has(action, "text") /\ action["text"] = YOUR_PASSWORD)
        THEN [action |-> SetItem(action, "text", Get(credentials, "password", "")),
              error |-> NoError]
        ELSE [action |-> action, error |-> NoError]
    ELSE IF action["type"] = "login" /\ Has(action, "username_selector")
    THEN [action |-> SetItem(SetItem(action, "username", Get(credentials, "username", "")),
                             "password", Get(credentials, "password", "")),
          error |-> NoError]
    ELSE [action |-> action, error |-> NoError]

\* for action in actions_data["actions"]: ... , from position i, stopping at the
\* first exception
RECURSIVE SubstituteFrom(_, _, _)
SubstituteFrom(actions, i, credentials) ==
    IF i > Len(actions) THEN [actions |-> actions, error |-> NoError]
    ELSE LET r == SubstituteAction(actions[i], credentials) IN
         IF r.error # NoError THEN [actions |-> actions, error |-> r.error]
         ELSE SubstituteFrom([actions EXCEPT ![i] = r.action], i + 1, credentials)

\* the whole `if request.credentials:` block
SubstituteCredentials(data, req) ==
    IF ~CredentialsSupplied(req) THEN [actions |-> data.actions, error |-> NoError]
    ELSE IF ~data.actions_is_list
         THEN [actions |-> data.actions, error |-> TypeErrorNotIterable]
         ELSE SubstituteFrom(data.actions, 1, req.credentials)

-----------------------------------------------------------------------------
(* Inputs: requests, interpreter outputs, page behaviour *)

Sel_q == <<"#", "q">>
Sel_user == <<"#", "u", "s", "e", "r">>
Sel_pass == <<"#", "p", "a", "s", "s">>
Sel_Password == <<"#", "P", "a", "s", "s", "w", "o", "r", "d">>

\* the actions the interpreter may put in a plan
Catalog ==
    { [type |-> "click", selector |-> Sel_q],
      [type |-> "fill", selector |-> Sel_Password, text |-> YOUR_USERNAME],
      [type |-> "fill", text |-> YOUR_PASSWORD],
      [type |-> "press", key |-> "Enter"],
      [type |-> "comment_post", index |-> 1, text |-> "hi"],
      [type |-> "share_post", index |-> 1],
      [selector |-> Sel_q],
      [type |-> "like_post", index |-> 1] }

Plans == UNION { [1..n -> Catalog] : n \in 0..MaxPlanLen }

EmptyDict == [k \in {} |-> ""]
CredentialDicts ==
    { EmptyDict, [username |-> "u", password |-> "p"], [username |-> "u"] }

\* CommandRequest; has_credentials is `credentials is not None`
NoCredentials(url) == [url |-> url, has_credentials |-> FALSE, credentials |-> EmptyDict]
WithCredentials(url, c) == [url |-> url, has_credentials |-> TRUE, credentials |-> c]
Requests ==
    { NoCredentials(u) : u \in {None, "https://request"} }
    \cup { WithCredentials(u, [username |-> "u", password |-> "p"]) :
             u \in {None, "https://request"} }

\* what interpret_command returns: parsed (it has returned), is_dict (a JSON object),
\* has_actions ("actions" in it), actions_is_list (its value is a list and not null),
\* starting_url (None when absent)
NoActionsData ==
    [parsed |-> FALSE, is_dict |-> FALSE, has_actions |-> FALSE, actions_is_list |-> FALSE,
     starting_url |-> None, actions |-> <<>>]
ActionsData ==
    { [NoActionsData EXCEPT !.parsed = TRUE],
      [NoActionsData EXCEPT !.parsed = TRUE, !.is_dict = TRUE],
      [NoActionsData EXCEPT !.parsed = TRUE, !.is_dict = TRUE, !.has_actions = TRUE] }
    \cup
    { [parsed |-> TRUE, is_dict |-> TRUE, has_actions |-> TRUE, actions_is_list |-> TRUE,
       starting_url |-> u, actions |-> plan] :
        u \in {None, "https://plan"}, plan \in Plans }

\* attribute values get_attribute may return for the like button; the button read
\* before the click has the class list "btn"
PressedValues == {None, "false", "true"}
LabelValues == {"Like", "Unlike"}
ClassValues == {"btn", "btn active"}
ButtonAttrs ==
    { [aria_pressed |-> a, aria_label |-> l, classes |-> c] :
        a \in PressedValues, l \in LabelValues, c \in ClassValues }
ButtonAttrsBefore == { b \in ButtonAttrs : b.classes = "btn" }

\* page operations the inner try of like_post awaits when nothing raises and the
\* fallback selector group is needed
LikeOps ==
    <<"wait_for_selector", "query_selector_all", "scroll_into_view_if_needed",
      "wait_for_timeout", "query_selector", "query_selector",
      "get_attribute", "get_attribute", "get_attribute", "evaluate", "wait_for_timeout",
      "get_attribute", "get_attribute", "get_attribute">>

\* every behaviour of the page during like_post
AllLikeEnvs ==
    { [failAt |-> f, count |-> n, primary |-> found[1], fallback |-> found[2],
       before |-> b, after |-> a] :
        f \in 0..Len(LikeOps), n \in 0..MaxPosts,
        found \in {<<TRUE, FALSE>>, <<FALSE, TRUE>>, <<FALSE, FALSE>>},
        b \in ButtonAttrsBefore, a \in ButtonAttrs }

\* the behaviours drawn when like_post runs inside a whole request: one post, an
\* unpressed button found by the primary selectors, the click changing nothing, the
\* pressed state alone, the label alone or both; the feed wait raising or not
Unpressed == [aria_pressed |-> "false", aria_label |-> "Like", classes |-> "btn"]
ExecutorLikeEnvs ==
    { [failAt |-> f, count |-> 1, primary |-> TRUE, fallback |-> FALSE,
       before |-> Unpressed,
       after |-> [aria_pressed |-> a, aria_label |-> l, classes |-> "btn"]] :
        f \in {0, 1}, a \in {"false", "true"}, l \in {"Like", "Unlike"} }

-----------------------------------------------------------------------------
(* Browser session *)

NoSession == [playwright |-> "none", browser |-> "none", context |-> "none", page |-> "none"]

\* async with async_playwright() leaves its block: the driver stops and what it
\* still holds open dies with it
Killed(part) == IF part = "open" THEN "killed" ELSE part
StopPlaywright(s) ==
    [playwright |-> "stopped", browser |-> Killed(s.browser),
     context |-> Killed(s.context), page |-> Killed(s.page)]

\* finally: await context.close(); await browser.close()
CloseContextOnly(s) == [s EXCEPT !.context = "closed", !.page = "closed"]
CloseBrowserOnly(s) == [s EXCEPT !.browser = "closed"]
CloseSession(s) == [s EXCEPT !.context = "closed", !.page = "closed", !.browser = "closed"]

-----------------------------------------------------------------------------
(* The request as a state machine *)

Init ==
    /\ pc = "interpret"
    /\ request \in Requests
    /\ actions_data = NoActionsData
    /\ llm_actions = <<>>
    /\ starting_url = None
    /\ session = NoSession
    /\ results = <<>>
    /\ idx = 1
    /\ thrown = <<>>
    /\ navOps = <<>>
    /\ pageOps = <<>>
    /\ likeObs = NoObs
    /\ exc = NoError
    /\ pending = NoResponse
    /\ response = NoResponse

\* interpret_command raises: the model call failed, or its answer is not JSON
InterpretFails ==
    /\ pc = "interpret"
    /\ \E e \in { HTTPException(500, "Failed to parse command response"),
                  HTTPException(500, "Command interpretation failed") } :
          response' = InteractExcept(e)
    /\ pc' = "done"
    /\ UNCHANGED <<request, actions_data, llm_actions, starting_url, session, results, idx,
                   thrown, navOps, pageOps, likeObs, exc, pending>>

\* interpret_command returns the parsed JSON value
InterpretCommand ==
    /\ pc = "interpret"
    /\ \E data \in ActionsData :
          /\ actions_data' = data
          /\ llm_actions' = data.actions
    /\ pc' = "prepare"
    /\ UNCHANGED <<request, starting_url, session, results, idx, thrown, navOps, pageOps,
                   likeObs, exc, pending, response>>

\* interact, from the format check to the call of execute_actions
PrepareActions ==
    /\ pc = "prepare"
    /\ IF ~actions_data.is_dict \/ ~actions_data.has_actions
       THEN /\ response' = InteractExcept(HTTPException(400, "Invalid actions format"))
            /\ pc' = "done"
            /\ UNCHANGED <<actions_data, starting_url>>
       ELSE LET sub == SubstituteCredentials(actions_data, request) IN
            /\ starting_url' = IF Truthy(request.url) THEN request.url
                               ELSE actions_data.starting_url
            /\ actions_data' = [actions_data EXCEPT !.actions = sub.actions]
            /\ IF sub.error # NoError
               THEN response' = InteractExcept(sub.error) /\ pc' = "done"
               ELSE response' = response /\ pc' = "acquire"
    /\ UNCHANGED <<request, llm_actions, session, results, idx, thrown, navOps, pageOps,
                   likeObs, exc, pending>>

\* async with async_playwright(), launch, new_context, new_page: outside the try
\* block, so that a failure leaves execute_actions as an exception
AcquireSession ==
    /\ pc = "acquire"
    /\ \E outcome \in {"launch failed", "new_context failed", "new_page failed", "ok"} :
          LET s == CASE outcome = "launch failed" -> [NoSession EXCEPT !.playwright = "running"]
                     [] outcome = "new_context failed" ->
                          [NoSession EXCEPT !.playwright = "running", !.browser = "open"]
                     [] outcome = "new_page failed" ->
                          [NoSession EXCEPT !.playwright = "running", !.browser = "open",
                                            !.context = "open"]
                     [] OTHER ->
                          [playwright |-> "running", browser |-> "open", context |-> "open",
                           page |-> "open"]
          IN IF outcome = "ok"
             THEN /\ session' = s
                  /\ pc' = "navigate"
                  /\ UNCHANGED response
             ELSE /\ session' = StopPlaywright(s)
                  /\ response' = InteractExcept(PageError)
                  /\ pc' = "done"
    /\ UNCHANGED <<request, actions_data, llm_actions, starting_url, results, idx, thrown,
                   navOps, pageOps, likeObs, exc, pending>>

\* the exception the initial navigation turns a failure into
NavigationErrorNone(r) == NoError
NavigationError(r) ==
    IF r.error # NoError
    THEN HTTPException(500, "Failed to navigate to starting URL")
    ELSE NoError

\* if starting_url: goto, wait_for_load_state; then results = {"steps": []}
InitialNavigation ==
    /\ pc = "navigate"
    /\ \E failAt \in 0..2 :
          LET r == IF Truthy(starting_url)
                   THEN RunOps(<<"goto", "wait_for_load_state">>, failAt, <<>>)
                   ELSE [ops |-> <<>>, error |-> NoError]
              e == NavigationError(r)
          IN /\ navOps' = r.ops
             /\ exc' = e
             /\ pc' = IF e # NoError THEN "fatal" ELSE "loop"
    /\ results' = <<>>
    /\ idx' = 1
    /\ UNCHANGED <<request, actions_data, llm_actions, starting_url, session, thrown,
                   pageOps, likeObs, pending, response>>

\* for action in actions: raises when actions is not iterable
IterateRaises ==
    /\ pc = "loop"
    /\ ~actions_data.actions_is_list
    /\ exc' = TypeErrorNotIterable
    /\ pc' = "fatal"
    /\ UNCHANGED <<request, actions_data, llm_actions, starting_url, session, results, idx,
                   thrown, navOps, pageOps, likeObs, pending, response>>

IsLikePost(action) == Has(action, "type") /\ action["type"] = "like_post"

\* one iteration of the loop for an action that is not a like_post
DispatchAction ==
    /\ pc = "loop"
    /\ actions_data.actions_is_list
    /\ idx <= Len(actions_data.actions)
    /\ LET action == actions_data.actions[idx] IN
       /\ ~IsLikePost(action)
       /\ \E failAt \in 0..NumOps(StepProgram(action)), shotOk \in BOOLEAN :
             LET r == RunStep(action, failAt)
                 failed == r.error # NoError
                 step_result == IF failed
                                THEN CatchStep(NewStepResult(action), r.error, shotOk)
                                ELSE NewStepResult(action)
             IN /\ (~failed => shotOk)
                /\ results' = AppendStep(results, step_result)
                /\ thrown' = Append(thrown, r.error)
                /\ pageOps' = IF failed
                              THEN Append(r.ops, [op |-> "screenshot", ok |-> shotOk])
                              ELSE r.ops
    /\ idx' = idx + 1
    /\ UNCHANGED <<pc, request, actions_data, llm_actions, starting_url, session, navOps,
                   likeObs, exc, pending, response>>

\* one iteration of the loop for a like_post action: the branch returns its own
\* dict, unless the screenshot of its except clause raises, which the except clause
\* of the iteration catches
DispatchLikePost(envs) ==
    /\ pc = "loop"
    /\ actions_data.actions_is_list
    /\ idx <= Len(actions_data.actions)
    /\ LET action == actions_data.actions[idx] IN
       /\ IsLikePost(action)
       /\ \E env \in envs, shotOk \in BOOLEAN, stepShotOk \in BOOLEAN :
             LET r == LikePostTry(action, env)
                 failed == r.error # NoError
                 returns == ~failed \/ shotOk
             IN /\ (~failed => shotOk)
                /\ (returns => stepShotOk)
                /\ likeObs' = [r.obs EXCEPT !.error = r.error, !.returned = returns]
                /\ thrown' = Append(thrown, IF returns THEN NoError ELSE PageError)
                /\ IF returns
                   THEN /\ pending' = IF failed THEN LikeFailure(r.error)
                                      ELSE LikeSuccess(r.obs)
                        /\ pageOps' = IF failed
                                      THEN Append(r.ops, [op |-> "screenshot", ok |-> TRUE])
                                      ELSE r.ops
                        /\ pc' = "teardown"
                        /\ UNCHANGED <<results, idx>>
                   ELSE /\ results' = AppendStep(results,
                                         CatchStep(NewStepResult(action), PageError, stepShotOk))
                        /\ pageOps' = r.ops \o <<[op |-> "screenshot", ok |-> FALSE],
                                                [op |-> "screenshot", ok |-> stepShotOk]>>
                        /\ idx' = idx + 1
                        /\ UNCHANGED <<pc, pending>>
    /\ UNCHANGED <<request, actions_data, llm_actions, starting_url, session, navOps, exc,
                   response>>

\* after the loop: the full-page screenshot, then return AutomationResponse(success=True);
\* a screenshot that raises is caught by the outer except clause
FinalScreenshot ==
    /\ pc = "loop"
    /\ actions_data.actions_is_list
    /\ idx > Len(actions_data.actions)
    /\ \E shotOk \in BOOLEAN :
          /\ pageOps' = <<[op |-> "screenshot", ok |-> shotOk]>>
          /\ IF shotOk
             THEN pending' = FinalResponse(results) /\ pc' = "teardown" /\ exc' = exc
             ELSE pending' = pending /\ pc' = "fatal" /\ exc' = PageError
    /\ UNCHANGED <<request, actions_data, llm_actions, starting_url, session, results, idx,
                   thrown, navOps, likeObs, response>>

\* except Exception as e: screenshot if possible, return AutomationResponse(success=False)
FatalHandler ==
    /\ pc = "fatal"
    /\ \E shotOk \in BOOLEAN :
          /\ pageOps' = <<[op |-> "screenshot", ok |-> shotOk]>>
          /\ pending' = FatalResponse(exc, shotOk)
    /\ pc' = "teardown"
    /\ UNCHANGED <<request, actions_data, llm_actions, starting_url, session, results, idx,
                   thrown, navOps, likeObs, exc, response>>

\* finally: sleep, close the context and the browser; then the async with block ends
Teardown ==
    /\ pc = "teardown"
    /\ session' = StopPlaywright(CloseSession(session))
    /\ pc' = "respond"
    /\ UNCHANGED <<request, actions_data, llm_actions, starting_url, results, idx, thrown,
                   navOps, pageOps, likeObs, exc, pending, response>>

\* return await execute_actions(...): the endpoint answers
Respond ==
    /\ pc = "respond"
    /\ response' = EndpointResponse(pending)
    /\ pc' = "done"
    /\ UNCHANGED <<request, actions_data, llm_actions, starting_url, session, results, idx,
                   thrown, navOps, pageOps, likeObs, exc, pending>>

Next ==
    \/ InterpretFails
    \/ InterpretCommand
    \/ PrepareActions
    \/ AcquireSession
    \/ InitialNavigation
    \/ IterateRaises
    \/ DispatchAction
    \/ DispatchLikePost(ExecutorLikeEnvs)
    \/ FinalScreenshot
    \/ FatalHandler
    \/ Teardown
    \/ Respond

Spec == Init /\ [][Next]_vars

-----------------------------------------------------------------------------
(* Credential substitution on its own inputs: the request starts where           *)
(* interpret_command has returned a plan of fill and login actions.               *)

SubstCatalog ==
    { [type |-> "fill", selector |-> Sel_user, text |-> YOUR_USERNAME],
      [type |-> "fill", selector |-> Sel_pass, text |-> YOUR_PASSWORD],
      [type |-> "fill", selector |-> Sel_Password, text |-> YOUR_USERNAME],
      [type |-> "fill", selector |-> Sel_Password],
      [type |-> "fill", text |-> YOUR_PASSWORD],
      [type |-> "login", username_selector |-> Sel_user, password_selector |-> Sel_pass,
       submit_selector |-> Sel_q],
      [type |-> "login", password_selector |-> Sel_pass, submit_selector |-> Sel_q] }

SubstPlans == UNION { [1..n -> SubstCatalog] : n \in 0..MaxPlanLen }

SubstRequests ==
    { NoCredentials(None) } \cup { WithCredentials(None, c) : c \in CredentialDicts }

SubstInit ==
    /\ pc = "prepare"
    /\ request \in SubstRequests
    /\ \E plan \in SubstPlans :
          /\ actions_data = [parsed |-> TRUE, is_dict |-> TRUE, has_actions |-> TRUE,
                             actions_is_list |-> TRUE, starting_url |-> None, actions |-> plan]
          /\ llm_actions = plan
    /\ starting_url = None
    /\ session = NoSession
    /\ results = <<>>
    /\ idx = 1
    /\ thrown = <<>>
    /\ navOps = <<>>
    /\ pageOps = <<>>
    /\ likeObs = NoObs
    /\ exc = NoError
    /\ pending = NoResponse
    /\ response = NoResponse

SubstNext ==
    \/ PrepareActions
    \/ AcquireSession
    \/ InitialNavigation
    \/ DispatchAction
    \/ FinalScreenshot
    \/ FatalHandler
    \/ Teardown
    \/ Respond

SubstSpec == SubstInit /\ [][SubstNext]_vars

-----------------------------------------------------------------------------
(* like_post on its own inputs: the request starts at the loop, the session open, *)
(* the plan one like_post action; the page behaves in every way.                  *)

LikeActions ==
    { [type |-> "like_post"] }
    \cup { [type |-> "like_post", index |-> i] : i \in (-MaxIndex)..MaxIndex }

LikeInit ==
    /\ pc = "loop"
    /\ request = NoCredentials(None)
    /\ \E action \in LikeActions :
          /\ actions_data = [parsed |-> TRUE, is_dict |-> TRUE, has_actions |-> TRUE,
                             actions_is_list |-> TRUE, starting_url |-> None, actions |-> <<action>>]
          /\ llm_actions = <<action>>
    /\ starting_url = None
    /\ session = [playwright |-> "running", browser |-> "open", context |-> "open",
                  page |-> "open"]
    /\ results = <<>>
    /\ idx = 1
    /\ thrown = <<>>
    /\ navOps = <<>>
    /\ pageOps = <<>>
    /\ likeObs = NoObs
    /\ exc = NoError
    /\ pending = NoResponse
    /\ response = NoResponse

LikeNext ==
    \/ DispatchLikePost(AllLikeEnvs)
    \/ FinalScreenshot
    \/ FatalHandler
    \/ Teardown
    \/ Respond

LikeSpec == LikeInit /\ [][LikeNext]_vars

-----------------------------------------------------------------------------
(* Properties *)

Actions == actions_data.actions
IsList == actions_data.actions_is_list
NoLikePost == \A i \in DOMAIN Actions : ~IsLikePost(Actions[i])
\* execute_actions holds its session: launch, new_context and new_page succeeded
SessionAcquired == session.page # "none"
\* the initial navigation was attempted and one of its two waits raised
NavigationFailed == \E i \in DOMAIN navOps : ~navOps[i].ok
\* the for loop has consumed the whole plan
LoopEnded == SessionAcquired /\ IsList /\ ~NavigationFailed /\ idx > Len(Actions)
AllScreenshots(ops) == \A j \in DOMAIN ops : ops[j].op = "screenshot"
ScreenshotTaken == pageOps = <<[op |-> "screenshot", ok |-> TRUE]>>

\* C1: for a plan of N actions without like_post whose initial navigation did not
\* fail, the steps trail is at every moment the StepResults of the actions
\* dispatched so far, in plan order, and when the loop ends it holds exactly N
\* StepResults, the i-th one for the i-th action, whatever each handler did.
C1_OneStepResultPerAction ==
    (SessionAcquired /\ IsList /\ NoLikePost /\ ~NavigationFailed) =>
        /\ Len(results) = idx - 1
        /\ Len(results) <= Len(Actions)
        /\ \A i \in DOMAIN results : results[i].action = Actions[i]
        /\ (LoopEnded => Len(results) = Len(Actions))

\* a plan whose first action has no type and whose second is an unrecognized kind
\* ran to the end of the loop, the first step failed and the second succeeded
C1_Witness ==
    /\ pc = "teardown" /\ LoopEnded /\ NoLikePost
    /\ Len(Actions) = 2
    /\ ~Has(Actions[1], "type")
    /\ Has(Actions[2], "type") /\ Actions[2]["type"] = "comment_post"
    /\ ~results[1].success /\ results[2].success

\* C2 (state part): in a plan without like_post every exception a handler raised is
\* recorded as the failed StepResult of its action, with its message, and when no
\* exception reached the outer except clause (the navigation and the final
\* screenshot succeeded) the aggregate result has success true and carries the
\* steps, even if every step failed.
C2_StepFailureAbsorbed ==
    (SessionAcquired /\ IsList /\ NoLikePost) =>
        /\ \A i \in DOMAIN thrown :
              thrown[i] # NoError =>
                  /\ i \in DOMAIN results
                  /\ ~results[i].success
                  /\ results[i].error = thrown[i]
        /\ (pc \in {"teardown", "respond", "done"} /\ exc = NoError) =>
              /\ pending.kind = "AutomationResponse"
              /\ pending.success
              /\ pending.hasData /\ pending.data = results
        /\ (pc = "done" /\ exc = NoError) =>
              response.status = 200 /\ response.success

\* C2 (step part): in a plan without like_post an iteration of the loop always
\* moves on to the next action, whether its handler raised or not.
C2_NextActionDispatched ==
    (pc = "loop" /\ IsList /\ NoLikePost /\ idx <= Len(Actions)) =>
        /\ pc' = "loop"
        /\ idx' = idx + 1
        /\ Len(thrown') = Len(thrown) + 1
        /\ Len(results') = Len(results) + 1

\* C2: a handler failure is never request-fatal.
C2_HandlerFailureNotFatal ==
    []C2_StepFailureAbsorbed /\ [][C2_NextActionDispatched]_vars

\* every step of a two-action plan failed and the request still answered success
C2_Witness ==
    /\ pc = "done" /\ NoLikePost
    /\ Len(results) = 2
    /\ \A i \in DOMAIN results : ~results[i].success /\ thrown[i] # NoError
    /\ response.status = 200 /\ response.success

\* C3: once the session is acquired, execute_actions has closed the context and
\* the browser by the time it returns, on every exit path; no result is handed
\* to the endpoint, and no response is given, with either of them open.
C3_SessionClosed ==
    (SessionAcquired /\ (pc \in {"respond", "done"} \/ response.kind # "none")) =>
        /\ session.context = "closed"
        /\ session.browser = "closed"

\* like_post returned its failure dict and the request is answered, session closed
C3_Witness ==
    /\ pc = "done"
    /\ likeObs.returned /\ likeObs.error # NoError
    /\ ~response.success
    /\ session.context = "closed" /\ session.browser = "closed"

\* C4: the like_post verification fails exactly when the pressed-state snapshot and
\* the label snapshot are both identical before and after the click, and succeeds
\* in every other case, whatever the class list did.
C4_VerificationFailsIffBothUnchanged ==
    (likeObs.after # NullSnapshot) =>
        /\ (likeObs.error = LikeNotRegistered)
              <=> StateUnchangedAnd(likeObs.before, likeObs.after)
        /\ (likeObs.error = NoError)
              <=> ~StateUnchangedAnd(likeObs.before, likeObs.after)

\* C5: when the initial navigation fails, no action is dispatched and no StepResult
\* is produced; execute_actions returns success false, with a screenshot exactly
\* when the screenshot of the outer except clause could be taken, and the
\* endpoint answers with that result.
C5_FatalNavigation ==
    NavigationFailed =>
        /\ Truthy(starting_url)
        /\ results = <<>> /\ thrown = <<>> /\ idx = 1 /\ likeObs = NoObs
        /\ pc \in {"fatal", "teardown", "respond", "done"}
        /\ (pc # "fatal") =>
              /\ pending.kind = "AutomationResponse"
              /\ ~pending.success
              /\ ~pending.hasData
              /\ pending.screenshot = ScreenshotTaken
        /\ (pc = "done") =>
              /\ response.status = 200
              /\ ~response.success
              /\ response.screenshot = ScreenshotTaken

\* the page loaded but the network-idle wait raised, the plan was not empty, and
\* the request was answered with a failure that carries no screenshot
C5_Witness ==
    /\ pc = "done"
    /\ Len(navOps) = 2 /\ navOps[1].ok /\ ~navOps[2].ok
    /\ IsList /\ Len(Actions) >= 1
    /\ ~response.success /\ ~response.screenshot

\* the index the like_post action of the plan asks for
RequestedIndex == Get(Actions[1], "index", 1)

\* C6: with at least one post found and a like_post index greater than the post
\* count, the targeted post is the last one (position count - 1) and the
\* indexing never raises.
C6_IndexAboveCountTargetsLast ==
    (likeObs.count >= 1 /\ RequestedIndex > likeObs.count) =>
        /\ likeObs.target = likeObs.count - 1
        /\ likeObs.error # IndexError

\* two posts, index 3: the last post was liked and the like verified
C6_Witness ==
    /\ likeObs.count = 2 /\ RequestedIndex = 3
    /\ likeObs.target = 1
    /\ likeObs.returned /\ likeObs.error = NoError
    /\ pending.success

IsPressWithoutSelector(action) ==
    Has(action, "type") /\ action["type"] = "press" /\ ~Has(action, "selector")

\* C7: the iteration of a press action without a selector appends a failed
\* StepResult whose error is the explicit "requires a selector" exception, touches
\* the page only for the diagnostic screenshot of the except clause (no wait, no
\* key press, no settle delay), and leaves the loop at the next action.
C7_PressWithoutSelectorStep ==
    (pc = "loop" /\ IsList /\ idx <= Len(Actions) /\ IsPressWithoutSelector(Actions[idx])) =>
        /\ pc' = "loop" /\ idx' = idx + 1
        /\ Len(results') = Len(results) + 1
        /\ results'[idx].action = Actions[idx]
        /\ ~results'[idx].success
        /\ results'[idx].error = PressRequiresSelector
        /\ results'[idx].error # KeyError("selector")
        /\ AllScreenshots(pageOps')

\* C7: every step that dispatches a press action without a selector records the
\* explicit "requires a selector" failure, performs no element interaction and
\* keeps the loop going.
C7_PressWithoutSelector == [][C7_PressWithoutSelectorStep]_vars

\* a press without selector was dispatched first, recorded as failed with the
\* explicit message, and the loop stands at the second action
C7_Witness ==
    /\ pc = "loop" /\ idx = 2 /\ Len(Actions) = 2
    /\ IsPressWithoutSelector(Actions[1])
    /\ results[1].error = PressRequiresSelector
    /\ AllScreenshots(pageOps)

IsUnimplemented(action) == Has(action, "type") /\ action["type"] \notin ImplementedKinds

\* C8 as claimed: every StepResult of an action of an unimplemented kind has
\* success true and no error.
C8_UnknownKindAlwaysSucceeds ==
    \A i \in DOMAIN results :
        IsUnimplemented(results[i].action) =>
            results[i].success /\ results[i].error = NoError

\* C8 as amended: the iteration of an action of an unimplemented kind performs no
\* element interaction, navigation or script evaluation: its only page operation
\* is the settle delay (and the diagnostic screenshot when that delay raises); its
\* StepResult has success true and no error when the settle delay completes, and
\* is a failed StepResult with the delay's error when it raises; either way the
\* loop goes on to the next action.
C8_UnknownKindStep ==
    (pc = "loop" /\ IsList /\ idx <= Len(Actions) /\ IsUnimplemented(Actions[idx])) =>
        /\ pc' = "loop" /\ idx' = idx + 1
        /\ Len(results') = Len(results) + 1
        /\ results'[idx].action = Actions[idx]
        /\ Len(pageOps') >= 1
        /\ pageOps'[1].op = "settle_wait_for_timeout"
        /\ AllScreenshots(Tail(pageOps'))
        /\ pageOps'[1].ok =>
              /\ results'[idx].success /\ results'[idx].error = NoError
              /\ Len(pageOps') = 1
        /\ ~pageOps'[1].ok =>
              ~results'[idx].success /\ results'[idx].error = PageError

\* C8 as amended: every step that dispatches an action of an unimplemented kind
\* touches the page only for the settle delay, records success unless that delay
\* raises, and keeps the loop going.
C8_UnknownKindNoInteraction == [][C8_UnknownKindStep]_vars

\* a comment_post and a share_post were both dispatched and recorded as succeeded
C8_Witness ==
    /\ pc = "loop" /\ idx = 3
    /\ Has(Actions[1], "type") /\ Actions[1]["type"] = "comment_post"
    /\ Has(Actions[2], "type") /\ Actions[2]["type"] = "share_post"
    /\ results[1].success /\ results[2].success
    /\ pageOps = <<[op |-> "settle_wait_for_timeout", ok |-> TRUE]>>

IsFill(action) == Has(action, "type") /\ action["type"] = "fill"
TextIs(action, text) == Has(action, "text") /\ action["text"] = text
SelectorHasPassword(action) ==
    Has(action, "selector") /\ StrContains(PASSWORD, StrLower(action["selector"]))
SuppliedUsername == Get(request.credentials, "username", "")
SuppliedPassword == Get(request.credentials, "password", "")
\* interact has called execute_actions: the substitution pass is over
HandedToExecutor ==
    pc \in {"acquire", "navigate", "loop", "fatal", "teardown", "respond"}
    \/ (pc = "done" /\ session.playwright # "none")
NothingExecuted == session = NoSession /\ results = <<>> /\ thrown = <<>> /\ pageOps = <<>>

\* C9 as claimed: with credentials supplied, in the plan handed to the executor
\* every fill whose interpreted text is YOUR_USERNAME carries the username, and
\* every fill whose interpreted text is YOUR_PASSWORD or whose selector contains
\* "password" carries the password.
C9_SentinelsAndPasswordSelectors ==
    (HandedToExecutor /\ CredentialsSupplied(request)) =>
        \A i \in DOMAIN llm_actions :
            IsFill(llm_actions[i]) =>
                /\ TextIs(llm_actions[i], YOUR_USERNAME) => TextIs(Actions[i], SuppliedUsername)
                /\ (TextIs(llm_actions[i], YOUR_PASSWORD) \/ SelectorHasPassword(llm_actions[i]))
                      => TextIs(Actions[i], SuppliedPassword)

\* C9 as amended (state part): with credentials supplied, in the plan handed to
\* the executor every fill whose interpreted text is YOUR_USERNAME carries the
\* username, and every fill whose interpreted text is not YOUR_USERNAME and is
\* YOUR_PASSWORD, or whose selector contains "password" in any case, carries the
\* password (a credential the caller left out is the empty string); the plan is
\* handed over with nothing executed yet; and a pass that raises ends the request
\* with status 500 and no session.
C9_SubstitutionResult ==
    /\ (HandedToExecutor /\ CredentialsSupplied(request)) =>
          \A i \in DOMAIN llm_actions :
              IsFill(llm_actions[i]) =>
                  /\ TextIs(llm_actions[i], YOUR_USERNAME)
                        => TextIs(Actions[i], SuppliedUsername)
                  /\ (~TextIs(llm_actions[i], YOUR_USERNAME)
                      /\ (TextIs(llm_actions[i], YOUR_PASSWORD)
                          \/ SelectorHasPassword(llm_actions[i])))
                        => TextIs(Actions[i], SuppliedPassword)
    /\ pc = "acquire" => NothingExecuted
    /\ (pc = "done" /\ ~HandedToExecutor) =>
          /\ NothingExecuted
          /\ response.kind = "http_error" /\ response.status = 500

\* C9 as amended (step part): the plan changes in the substitution pass and at no
\* other step of the request.
C9_SubstitutionOnlyInPrepare ==
    (pc # "prepare") => (actions_data' = actions_data)

\* C9 as amended: the username sentinel takes precedence over the password
\* tests, the substitution runs once, before any action executes, and a pass that
\* raises ends the request with status 500.
C9_CredentialSubstitution ==
    []C9_SubstitutionResult /\ [][C9_SubstitutionOnlyInPrepare]_vars

\* username u, password p: a fill of a password field with the username sentinel
\* now carries u, a fill with the password sentinel carries p, nothing has run
C9_Witness ==
    /\ pc = "acquire"
    /\ request.credentials = [username |-> "u", password |-> "p"]
    /\ Len(Actions) = 2
    /\ llm_actions[1] = [type |-> "fill", selector |-> Sel_Password, text |-> YOUR_USERNAME]
    /\ llm_actions[2] = [type |-> "fill", selector |-> Sel_pass, text |-> YOUR_PASSWORD]
    /\ Actions[1]["text"] = "u"
    /\ Actions[2]["text"] = "p"

LacksActionsList ==
    ~actions_data.is_dict \/ ~actions_data.has_actions \/ ~actions_data.actions_is_list

-----------------------------------------------------------------------------
(* Missing fields of an action *)

FieldNames ==
    {"type", "url", "selector", "text", "key", "username_selector", "username",
     "password_selector", "password", "submit_selector", "query"}
\* the plan is a list of actions, so the request is one that reaches the loop
\* over the actions in interact and in execute_actions
WellFormedPlan ==
    actions_data.parsed /\ actions_data.is_dict /\ actions_data.has_actions /\ IsList
\* the endpoint answered with the error of a lookup of a field an action lacks
AnsweredWithKeyError == \E k \in FieldNames : response = InteractExcept(KeyError(k))

\* C11: the absence of a required field of an action (its type included, or the
\* selector of a fill) is recorded as the failed StepResult of that action, and a
\* request with a well-formed plan is never answered with the lookup failure as a
\* request-level error, whether or not credentials are supplied.
C11_MissingFieldIsStepFailure ==
    /\ \A i \in DOMAIN results :
          (thrown[i] # NoError /\ thrown[i][1] = "KeyError") =>
              /\ ~results[i].success
              /\ results[i].error = thrown[i]
    /\ (pc = "done" /\ WellFormedPlan) => ~AnsweredWithKeyError

-----------------------------------------------------------------------------
(* The like_post short-circuit and the screenshots *)

\* the i-th action of the plan has been dispatched and is a like_post
LikePostDispatched(i) == i \in DOMAIN thrown /\ IsLikePost(Actions[i])

\* C12: whenever a like_post is dispatched, on its success and on every one of its
\* failure paths, execute_actions returns the dict of the like_post branch at once:
\* no StepResult is appended for the like_post and no action after it is dispatched.
C12_LikePostReturnsItsOwnResult ==
    \A i \in DOMAIN thrown :
        LikePostDispatched(i) =>
            /\ i = Len(thrown)
            /\ Len(results) = i - 1
            /\ pc \in {"teardown", "respond", "done"}
            /\ pending.kind = "dict"


\* C13: a screenshot capture that fails is always swallowed. The diagnostic
\* screenshot of a failed step leaves the step's recorded error as it was; the
\* screenshot of a failed like_post leaves the like_post returning its own failure
\* result; the final full-page screenshot never turns a request whose loop ended
\* into a failure; the screenshot of the fatal path leaves the failure result as
\* it is but for the absent screenshot.
C13_ScreenshotFailureSwallowed ==
    /\ \A i \in DOMAIN results :
          (thrown[i] # NoError /\ ~LikePostDispatched(i)) =>
              /\ ~results[i].success
              /\ results[i].error = thrown[i]
    /\ likeObs.error # NoError => likeObs.returned
    /\ LoopEnded => (exc = NoError /\ pc # "fatal")
    /\ (exc # NoError /\ pc \in {"teardown", "respond", "done"}) =>
          pending = FatalResponse(exc, pending.screenshot)


\* the initial navigation reached DOM content loaded and its wait for network
\* idle then raised
GotoLoadedIdleFailed ==
    navOps = <<[op |-> "goto", ok |-> TRUE], [op |-> "wait_for_load_state", ok |-> FALSE]>>

\* C14: when the initial navigation loads the page and only the wait for network
\* idle fails or times out, the request is not aborted: no exception reaches the
\* outer handler and the action loop runs over the plan.
C14_IdleWaitFailureNotFatal ==
    GotoLoadedIdleFailed =>
        /\ exc = NoError
        /\ pc # "fatal"


\* C15: whenever at least one post is found, for every requested index (zero and
\* negative ones included) the position computed as min(index - 1, count - 1)
\* lies in 0 .. count - 1, and the like_post does not fail for its index.
C15_ClampedIndexInRange ==
    likeObs.count >= 1 =>
        /\ ClampIndex(RequestedIndex, likeObs.count) \in 0..(likeObs.count - 1)
        /\ likeObs.error # IndexError

-----------------------------------------------------------------------------
(* Credentials of login actions *)

IsLogin(action) == Has(action, "type") /\ action["type"] = "login"
\* the login action with username and password set from the supplied credentials
Populated(action) ==
    SetItem(SetItem(action, "username", SuppliedUsername), "password", SuppliedPassword)

\* C16 as claimed: with credentials supplied, every login action of the plan handed
\* to the executor has its username and password populated from the credentials,
\* whatever other fields it carries.
C16_EveryLoginPopulated ==
    (HandedToExecutor /\ CredentialsSupplied(request)) =>
        \A i \in DOMAIN llm_actions :
            IsLogin(llm_actions[i]) =>
                /\ Has(Actions[i], "username") /\ Actions[i]["username"] = SuppliedUsername
                /\ Has(Actions[i], "password") /\ Actions[i]["password"] = SuppliedPassword

\* C16 as amended: with credentials supplied, in the plan handed to the executor a
\* login action that carries a username_selector has its username and password set
\* from the credentials (the empty string for a key the credentials lack) and is
\* otherwise as interpreted, and a login action without a username_selector is
\* left exactly as interpreted; this is so before anything is executed.
C16_LoginWithSelectorPopulated ==
    /\ (HandedToExecutor /\ CredentialsSupplied(request)) =>
          \A i \in DOMAIN llm_actions :
              IsLogin(llm_actions[i]) =>
                  Actions[i] = IF Has(llm_actions[i], "username_selector")
                               THEN Populated(llm_actions[i])
                               ELSE llm_actions[i]
    /\ pc = "acquire" => NothingExecuted

\* with only a username supplied, a plan of a login with a username_selector and a
\* login without one is about to be executed: the first is populated (its
\* password with the empty string), the second is not
C16_Witness ==
    /\ pc = "acquire"
    /\ CredentialsSupplied(request) /\ ~Has(request.credentials, "password")
    /\ Len(llm_actions) = 2
    /\ IsLogin(llm_actions[1]) /\ Has(llm_actions[1], "username_selector")
    /\ IsLogin(llm_actions[2]) /\ ~Has(llm_actions[2], "username_selector")
    /\ Actions[1]["username"] = "u" /\ Actions[1]["password"] = ""
    /\ ~Has(Actions[2], "username") /\ ~Has(Actions[2], "password")

-----------------------------------------------------------------------------
(* Order of the result and the teardown *)

SessionOpen ==
    session.browser = "open" /\ session.context = "open" /\ session.page = "open"
\* a page operation ran, or the result of execute_actions was built, in this step
PageUsedOrResultBuilt ==
    \/ navOps' # navOps
    \/ pageOps' # pageOps
    \/ results' # results
    \/ pending' # pending

C17_OpenWhileWorking ==
    /\ pc \in {"navigate", "loop", "fatal", "teardown"} => SessionOpen
    /\ pc = "teardown" => pending.kind # "none"
    /\ (SessionAcquired /\ pc \in {"respond", "done"}) =>
          /\ session.context = "closed"
          /\ session.browser = "closed"
    /\ (SessionAcquired /\ pc = "done") => response = EndpointResponse(pending)

C17_TeardownLast ==
    /\ PageUsedOrResultBuilt => (SessionOpen /\ session' = session)
    /\ (session' # session /\ SessionAcquired) =>
          /\ pc = "teardown" /\ pc' = "respond"
          /\ SessionOpen
          /\ pending' = pending /\ pageOps' = pageOps /\ results' = results
    /\ session.context = "closed" => session'.context = "closed"
    /\ session.browser = "closed" => session'.browser = "closed"

\* C17: the result of execute_actions is built before the session is closed. Every
\* page operation (the final and the failure screenshot included) runs with the
\* page, the context and the browser open; the teardown is the only change of an
\* acquired session, comes after the result is built and after the last page
\* operation, closes the context and the browser once, and they stay closed.
C17_ResultBeforeTeardown == []C17_OpenWhileWorking /\ [][C17_TeardownLast]_vars

\* the final screenshot failed, the failure screenshot was taken, the failure
\* result was built, and only then the session was closed and the answer given
C17_Witness ==
    /\ pc = "done"
    /\ LoopEnded /\ exc = PageError
    /\ pageOps = <<[op |-> "screenshot", ok |-> TRUE]>>
    /\ pending = FatalResponse(exc, TRUE)
    /\ session.context = "closed" /\ session.browser = "closed"
    /\ response = EndpointResponse(pending)

-----------------------------------------------------------------------------
(* What may change in the plan *)

\* the fields of an action the substitution pass may write
SubstitutedFields(action) ==
    IF IsFill(action) THEN {"text"}
    ELSE IF IsLogin(action) THEN {"username", "password"}
    ELSE {}
\* b is a but for the values of the given fields, which b may also gain
SameButFor(a, b, fields) ==
    /\ DOMAIN a \subseteq DOMAIN b
    /\ DOMAIN b \ fields = DOMAIN a \ fields
    /\ \A k \in DOMAIN a \ fields : b[k] = a[k]

C18_PlanFrame ==
    /\ Len(Actions) = Len(llm_actions)
    /\ \A i \in DOMAIN llm_actions :
          SameButFor(llm_actions[i], Actions[i], SubstitutedFields(llm_actions[i]))
    /\ ~CredentialsSupplied(request) => Actions = llm_actions
    /\ pc = "prepare" => Actions = llm_actions
    /\ \A i \in DOMAIN results : results[i].action = Actions[i]

C18_PlanFixedAfterPrepare ==
    pc # "prepare" => (actions_data' = actions_data /\ llm_actions' = llm_actions)

\* C18: the interpreted plan is changed by credential substitution only. The plan
\* keeps its length and the position of every action; an action differs from the
\* interpreted one at most in the text field of a fill and in the username and
\* password fields of a login; without credentials the plan is the interpreted
\* one; and execute_actions changes no action, each StepResult carrying the action
\* as it was handed over.
C18_PlanChangedOnlyBySubstitution == []C18_PlanFrame /\ [][C18_PlanFixedAfterPrepare]_vars

\* a fill with the username sentinel and a login were both substituted and both
\* executed, and the steps trail carries the substituted actions
C18_Witness ==
    /\ pc = "teardown"
    /\ CredentialsSupplied(request)
    /\ Len(llm_actions) = 2 /\ Len(results) = 2
    /\ TextIs(llm_actions[1], YOUR_USERNAME) /\ TextIs(Actions[1], "u")
    /\ IsLogin(llm_actions[2]) /\ ~Has(llm_actions[2], "username")
    /\ Has(Actions[2], "username") /\ Has(Actions[2], "password")
    /\ results[1].action = Actions[1] /\ results[2].action = Actions[2]

-----------------------------------------------------------------------------
(* Failure results and the steps trail *)

NoSteps(r) == ~r.hasData /\ r.data = <<>>

\* C19: every result execute_actions returns with success = false carries no steps
\* trail: the StepResults recorded before a fatal failure (such as the final
\* screenshot raising) are absent from the failure result, and the result of a
\* like_post, liked or not, holds none of the StepResults recorded before it; the
\* same is true of the answer the endpoint gives for it.
C19_FailureCarriesNoSteps ==
    /\ (pending.kind # "none" /\ ~pending.success) => NoSteps(pending)
    /\ pending.kind = "dict" => NoSteps(pending)
    /\ (response.status = 200 /\ ~response.success) => NoSteps(response)
    /\ (likeObs.returned /\ pc = "done") => NoSteps(response)

\* two actions were executed and recorded, then the final screenshot raised: the
\* failure result and the answer hold neither of the two StepResults
C19_Witness ==
    /\ pc = "done"
    /\ LoopEnded /\ exc = PageError
    /\ Len(results) = 2
    /\ response.status = 200 /\ ~response.success
    /\ NoSteps(pending) /\ NoSteps(response)

====
